---- MODULE Spec2Model ----
(***************************************************************************)
(* Model of the Araxia client patch downloader (src/main.go): the driver   *)
(* run, the concurrent downloadFile goroutines, the unbuffered done        *)
(* channel that joins them, and the extractor untarGz.                     *)
(*                                                                         *)
(* Strings are sequences of one-character strings so that len() and        *)
(* slicing are computed as the Go code computes them.  Go slices are       *)
(* 0-based: task i of the model is index i of files and of p.bars.         *)
(*                                                                         *)
(* Three specifications share the actions:                                 *)
(*   Spec       the whole pipeline, three concurrent downloads, the        *)
(*              barrier and the extraction loop, within one clock tick;    *)
(*   FetchSpec  one download followed through time, with larger bodies     *)
(*              and every kind of response;                                *)
(*   CallSpec   untarGz called on its own on any path and file content.    *)
(***************************************************************************)
EXTENDS Integers, Sequences, FiniteSets, TLC

\* ------------------------------------------------------------------ bounds

\* Largest response body, in bytes, the modelled server sends to the one
\* download FetchSpec follows, and to each download of the whole pipeline.
MaxBody == 3
PipeMaxBody == 1
\* Capacity of the read buffer (1024 in the program, scaled down).
BufSize == 1
\* Clock ticks per second; a tick is the resolution of time.Now().
TicksPerSecond == 2
\* Last tick of the modelled clock.
MaxClock == 5
\* Longest archive, in entries, handed to untarGz called on its own, and
\* to the untarGz calls of the whole pipeline.
MaxEntries == 2
PipeMaxEntries == 1

\* --------------------------------------------------------- program constants

\* var files (main.go:36-40)
files ==
  << <<"i","n","f","o",".","t","x","t">>,
     <<"A","r","a","x","i","a","P","a","t","c","h","v","1",".","t","a","r",".","g","z">>,
     <<"H","D","P","a","t","c","h","v","1",".","t","a","r",".","g","z">> >>

\* directory := "." (main.go:118)
directory == <<".">>

\* The literal ".tar.gz" compared against in untarGz (main.go:155)
TarGzLiteral == <<".","t","a","r",".","g","z">>

\* The number of trailing characters untarGz slices off the name (main.go:155)
SuffixSliceLen == 6

Tasks == 0 .. (Len(files) - 1)

\* ------------------------------------------------------------------- state

VARIABLES
  clock,      \* monotonic time, in ticks, read by time.Now()
  runPc,      \* position of run: "launch", "wait", "untar", "end"
  runI,       \* loop index of the loop run is in
  taskPc,     \* position of each downloadFile goroutine
  outcome,    \* how each downloadFile goroutine ended
  disk,       \* destination file of each task: [exists, size, open]
  resp,       \* response of each task's GET: [status, length]
  bars,       \* p.bars: [order, total, current] per index
  barValue,   \* last value given to QProgressBar.SetValue per bar
  labelText,  \* last text given to the speed label per bar
  timing,     \* downloadFile locals: [start, lastTime, lastBytes]
  samples,    \* times at which updateSpeedLabel was called, per task
  untarLog,   \* the untarGz calls run has made: sequence of [file, result]
  destDir,    \* entries materialised in the destination directory
  uPc,        \* stand-alone untarGz call: "call" or "returned"
  uIn,        \* its inputs: [src, exists, archive]
  uOut        \* its result: [status, created]

vars == << clock, runPc, runI, taskPc, outcome, disk, resp, bars, barValue,
           labelText, timing, samples, untarLog, destDir, uPc, uIn, uOut >>

pipeVars == << clock, runPc, runI, taskPc, outcome, disk, resp, bars, barValue,
               labelText, timing, samples, untarLog, destDir >>

callVars == << uPc, uIn, uOut >>

\* ------------------------------------------------------------ small helpers

Min(a, b) == IF a < b THEN a ELSE b

\* Slash == "/" as used in directory+"/"+file (main.go:139, 200)
Slash == <<"/">>

\* s[len(s)-k:] of Go; the caller guarantees k <= len(s)
LastChars(s, k) == SubSeq(s, Len(s) - k + 1, Len(s))

\* ----------------------------------------------------------------- untarGz

\* One archive entry as tarReader.Next and the file system present it:
\* kind is header.Typeflag, io the outcome of materialising it.
EntryShapes ==
  { [kind |-> "dir",   io |-> "ok"],
    [kind |-> "dir",   io |-> "create_err"],
    [kind |-> "reg",   io |-> "ok"],
    [kind |-> "reg",   io |-> "create_err"],
    [kind |-> "reg",   io |-> "copy_err"],
    [kind |-> "other", io |-> "ok"] }

EntrySeqs(maxEntries) == UNION { [1..n -> EntryShapes] : n \in 0..maxEntries }

\* The content of a source file as gzip.NewReader and tar.Reader see it:
\* gzip: the gzip header is valid; entries: the tar entries in order;
\* tail: what tarReader.Next returns after the last entry.
Archives(maxEntries) ==
  { [gzip |-> TRUE, entries |-> es, tail |-> tl] :
      es \in EntrySeqs(maxEntries), tl \in {"EOF", "err"} }
  \cup { [gzip |-> FALSE, entries |-> <<>>, tail |-> "EOF"] }

\* if gzipFile.Name()[len(gzipFile.Name())-6:] != ".tar.gz" (main.go:155)
\* gzipFile.Name() is the path as given to os.Open.
NotTarGz(name) == LastChars(name, SuffixSliceLen) # TarGzLiteral

\* The for loop over the archive (main.go:167-194), from entry k on, with
\* the entries created so far.  A created entry is [at, kind].
RECURSIVE UntarLoop(_, _, _)
UntarLoop(archive, k, created) ==
  IF k > Len(archive.entries)
  THEN IF archive.tail = "EOF"
       THEN [status |-> "nil", created |-> created]
       ELSE [status |-> "next_err", created |-> created]
  ELSE LET e == archive.entries[k] IN
       CASE e.kind = "dir" ->
              IF e.io = "ok"
              THEN UntarLoop(archive, k + 1,
                             Append(created, [at |-> k, kind |-> "dir"]))
              ELSE [status |-> "mkdir_err", created |-> created]
         [] e.kind = "reg" ->
              IF e.io = "create_err"
              THEN [status |-> "create_err", created |-> created]
              ELSE IF e.io = "copy_err"
              THEN [status |-> "copy_err",
                    created |-> Append(created, [at |-> k, kind |-> "reg"])]
              ELSE UntarLoop(archive, k + 1,
                             Append(created, [at |-> k, kind |-> "reg"]))
         [] OTHER -> UntarLoop(archive, k + 1, created)

\* func untarGz(src, dest) error (main.go:147-197).  openOk is the outcome
\* of os.Open(src).  status "nil" is a nil error, "panic" the run-time
\* panic of a slice expression out of range, anything else a returned error.
untarGz(src, openOk, archive) ==
  IF ~openOk
  THEN [status |-> "open_err", created |-> <<>>]
  ELSE IF Len(src) < SuffixSliceLen
  THEN [status |-> "panic", created |-> <<>>]
  ELSE IF NotTarGz(src)
  THEN [status |-> "nil", created |-> <<>>]
  ELSE IF ~archive.gzip
  THEN [status |-> "gzip_err", created |-> <<>>]
  ELSE UntarLoop(archive, 1, <<>>)

\* ------------------------------------------------------- progress display

\* Threshold of updateSpeedLabel (main.go:273, 275)
KiB == 1024

\* Stand-ins for the platform-specific result of converting a non-finite
\* float32 to int (main.go:268)
IntLow == -2147483647
IntHigh == 2147483647

\* x/y truncated toward zero, as Go's float-to-int conversion truncates
TruncDiv(x, y) ==
  IF y > 0
  THEN IF x >= 0 THEN x \div y ELSE -((-x) \div y)
  ELSE IF x >= 0 THEN -(x \div (-y)) ELSE (-x) \div (-y)

\* updateProgressBar (main.go:266-269): the values int(percent) can take,
\* percent := float32(current) / float32(total) * 100.  A zero total makes
\* percent non-finite, and its conversion to int is implementation-specific.
\* The quotients of the modelled byte counts are exact to the digit kept.
PercentValues(current, total) ==
  IF total = 0
  THEN {IntLow, 0, IntHigh}
  ELSE {TruncDiv(current * 100, total)}

\* value*100 rounded to the nearest integer, value = num/den, den > 0:
\* the two decimals "%.2f" prints
Centi(num, den) == (2 * 100 * num + den) \div (2 * den)

\* updateSpeedLabel (main.go:271-281) for speed = bytes / (ticks/TicksPerSecond)
SpeedLabel(bytes, ticks) ==
  LET num == bytes * TicksPerSecond
      den == ticks
  IN  IF num < KiB * den
      THEN [unit |-> "B/s", centi |-> Centi(num, den)]
      ELSE IF num < KiB * KiB * den
      THEN [unit |-> "KB/s", centi |-> Centi(num, den * KiB)]
      ELSE [unit |-> "MB/s", centi |-> Centi(num, den * KiB * KiB)]

\* ------------------------------------------------------------ downloadFile

\* go p.downloadFile(directory, file, i+1, done) (main.go:128)
Order(i) == i + 1

\* A faulty BarIndex: every task uses the first bar.
BarIndexFirst(order) == 0

\* progressBar := p.bars[order-1] (main.go:214)
BarIndex(order) == order - 1

\* A faulty SpeedDue: any elapsed time will do (elapsed > 0).
SpeedDueAtOnce(elapsedTicks) == elapsedTicks > 0

\* if elapsed >= 1 (main.go:229), elapsed in ticks
SpeedDue(elapsedTicks) == elapsedTicks >= TicksPerSecond

\* The server behind the one download FetchSpec follows: it answers with a
\* success or a non-success status and a body of at most MaxBody bytes.
FetchServer == [maxBody |-> MaxBody, statuses |-> {"ok", "http_error"}]

\* The server behind the whole pipeline: bodies of at most PipeMaxBody
\* bytes, and every answer a success.  downloadFile never reads the status
\* of a response, so no path of the code depends on it.
PipeServer == [maxBody |-> PipeMaxBody, statuses |-> {"ok"}]

\* The declared lengths a response can carry: resp.ContentLength is -1
\* when the length is unknown.
ContentLengths(server) == (-1) .. server.maxBody

\* Bytes the body of task t can still deliver: net/http ends a body of
\* declared length at that length, and the modelled server sends at most
\* server.maxBody bytes when it declares none.
Remaining(t, server) ==
  IF resp[t].length >= 0
  THEN resp[t].length - bars[BarIndex(Order(t))].current
  ELSE server.maxBody - bars[BarIndex(Order(t))].current

\* out, err := os.Create(directory + "/" + file) (main.go:200-205)
Create(t) ==
  /\ taskPc[t] = "create"
  /\ \E ok \in BOOLEAN :
       IF ok
       THEN /\ disk' = [disk EXCEPT ![t] = [exists |-> TRUE, size |-> 0, open |-> TRUE]]
            /\ taskPc' = [taskPc EXCEPT ![t] = "get"]
            /\ UNCHANGED outcome
       ELSE /\ taskPc' = [taskPc EXCEPT ![t] = "returned"]
            /\ outcome' = [outcome EXCEPT ![t] = "create_failed"]
            /\ UNCHANGED disk
  /\ UNCHANGED << clock, runPc, runI, resp, bars, barValue, labelText, timing,
                  samples, untarLog, destDir, callVars >>

\* resp, err := http.Get(patchSource + file) ... lastBytes := int64(0)
\* (main.go:207-219).  http.Get returns an error for a transport failure
\* only; a response with a non-2xx status is returned with a nil error.
Get(t, server) ==
  /\ taskPc[t] = "get"
  /\ \E r \in {"transport_error"} \cup server.statuses :
       IF r = "transport_error"
       THEN /\ taskPc' = [taskPc EXCEPT ![t] = "defer"]
            /\ outcome' = [outcome EXCEPT ![t] = "get_failed"]
            /\ UNCHANGED << resp, bars, timing >>
       ELSE \E len \in ContentLengths(server) :
            /\ resp' = [resp EXCEPT ![t] = [status |-> r, length |-> len]]
            /\ bars' = [bars EXCEPT ![BarIndex(Order(t))].total = len]
            /\ timing' = [timing EXCEPT ![t] =
                            [start |-> clock, lastTime |-> clock, lastBytes |-> 0]]
            /\ taskPc' = [taskPc EXCEPT ![t] = "read"]
            /\ UNCHANGED outcome
  /\ UNCHANGED << clock, runPc, runI, disk, barValue, labelText, samples,
                  untarLog, destDir, callVars >>

\* One iteration of the read loop (main.go:222-244): resp.Body.Read yields
\* n bytes and err; out.Write stores w of them (w < n is a failed write,
\* whose result the code does not look at).
Read(t, server) ==
  /\ taskPc[t] = "read"
  /\ \E n \in 0 .. Min(BufSize, Remaining(t, server)), err \in {"nil", "EOF", "error"} :
     LET b       == BarIndex(Order(t))
         current == bars[b].current + n
         elapsed == clock - timing[t].lastTime
     IN
       /\ err = "nil" => n > 0
       /\ err = "EOF" => (resp[t].length < 0 \/ current = resp[t].length)
       /\ IF n > 0
          THEN /\ \E w \in 0 .. n :
                    disk' = [disk EXCEPT ![t].size = @ + w]
               /\ bars' = [bars EXCEPT ![b].current = current]
               /\ IF SpeedDue(elapsed)
                  THEN /\ labelText' = [labelText EXCEPT ![b] =
                             SpeedLabel(current - timing[t].lastBytes, elapsed)]
                       /\ samples' = [samples EXCEPT ![t] = Append(@, clock)]
                       /\ timing' = [timing EXCEPT ![t].lastBytes = current,
                                                   ![t].lastTime = clock]
                  ELSE UNCHANGED << labelText, samples, timing >>
               /\ \E pct \in PercentValues(current, bars[b].total) :
                    barValue' = [barValue EXCEPT ![b] = pct]
          ELSE UNCHANGED << disk, bars, labelText, samples, timing, barValue >>
       /\ IF err = "EOF"
          THEN taskPc' = [taskPc EXCEPT ![t] = "send"] /\ UNCHANGED outcome
          ELSE IF err = "error"
          THEN /\ taskPc' = [taskPc EXCEPT ![t] = "defer"]
               /\ outcome' = [outcome EXCEPT ![t] = "read_failed"]
          ELSE UNCHANGED << taskPc, outcome >>
  /\ UNCHANGED << clock, runPc, runI, resp, untarLog, destDir, callVars >>

\* A faulty BarrierCount: the wait loop stops one receive short.
BarrierCountShort == Len(files) - 1

\* for i := 0; i < len(files); i++ (main.go:132)
BarrierCount == Len(files)

\* done <- true (main.go:246) meeting <-done (main.go:133): the channel is
\* unbuffered, so the send completes only together with a receive of run.
Send(t) ==
  /\ taskPc[t] = "send"
  /\ runPc = "wait"
  /\ taskPc' = [taskPc EXCEPT ![t] = "defer"]
  /\ outcome' = [outcome EXCEPT ![t] = "completed"]
  /\ IF runI + 1 < BarrierCount
     THEN runI' = runI + 1 /\ UNCHANGED runPc
     ELSE runI' = 0 /\ runPc' = "untar"
  /\ UNCHANGED << clock, disk, resp, bars, barValue, labelText, timing,
                  samples, untarLog, destDir, callVars >>

\* The function returns and its deferred calls run: defer out.Close(),
\* defer resp.Body.Close() (main.go:205, 212)
Return(t) ==
  /\ taskPc[t] = "defer"
  /\ taskPc' = [taskPc EXCEPT ![t] = "returned"]
  /\ disk' = [disk EXCEPT ![t].open = FALSE]
  /\ UNCHANGED << clock, runPc, runI, outcome, resp, bars, barValue, labelText,
                  timing, samples, untarLog, destDir, callVars >>

TaskStep(t, server) ==
  Create(t) \/ Get(t, server) \/ Read(t, server) \/ Send(t) \/ Return(t)

\* --------------------------------------------------------------------- run

\* for i, file := range files { go p.downloadFile(...) } (main.go:127-129)
Launch ==
  /\ runPc = "launch"
  /\ taskPc' = [taskPc EXCEPT ![runI] = "create"]
  /\ IF runI + 1 < Len(files)
     THEN runI' = runI + 1 /\ UNCHANGED runPc
     ELSE runI' = 0 /\ runPc' = "wait"
  /\ UNCHANGED << clock, outcome, disk, resp, bars, barValue, labelText, timing,
                  samples, untarLog, destDir, callVars >>

\* A faulty AfterUntar: the loop is left on the first error.
AfterUntarStop(i, status) ==
  IF status = "nil" /\ i + 1 < Len(files)
  THEN [pc |-> "untar", i |-> i + 1]
  ELSE [pc |-> "end", i |-> i + 1]

\* The extraction loop after the call on files[i] returned status
\* (main.go:137-143): an error is printed and the loop goes on.
AfterUntar(i, status) ==
  IF i + 1 < Len(files)
  THEN [pc |-> "untar", i |-> i + 1]
  ELSE [pc |-> "end", i |-> i + 1]

\* The file contents the extraction loop can meet.
PipeArchives == Archives(PipeMaxEntries)

\* What a call of untarGz on src can come to, over every outcome of
\* os.Open and every content of the file.
UntarOutcomes(src, exists) ==
  { untarGz(src, openOk /\ exists, archive) :
      openOk \in BOOLEAN, archive \in PipeArchives }

\* err := untarGz(directory+"/"+file, directory) (main.go:137-143); a
\* panic inside untarGz ends the process.
Untar ==
  /\ runPc = "untar"
  /\ \E r \in UntarOutcomes(directory \o Slash \o files[runI + 1], disk[runI].exists) :
           IF r.status = "panic"
           THEN /\ runPc' = "crashed"
                /\ UNCHANGED << runI, untarLog, destDir >>
           ELSE /\ untarLog' = Append(untarLog, [file |-> runI, status |-> r.status])
                /\ destDir' = destDir \o
                      [k \in 1 .. Len(r.created) |->
                         [file |-> runI, at |-> r.created[k].at, kind |-> r.created[k].kind]]
                /\ runPc' = AfterUntar(runI, r.status).pc
                /\ runI' = AfterUntar(runI, r.status).i
  /\ UNCHANGED << clock, taskPc, outcome, disk, resp, bars, barValue, labelText,
                  timing, samples, callVars >>

\* Time passes.
Tick(maxClock) ==
  /\ clock < maxClock
  /\ clock' = clock + 1
  /\ UNCHANGED << runPc, runI, taskPc, outcome, disk, resp, bars, barValue,
                  labelText, timing, samples, untarLog, destDir, callVars >>

\* The state when main starts run (main.go:63-73): initProgressBars has
\* built one ProgressBar per file, NewProgressBar has set each bar to 0
\* and each label to "".
PipeInit ==
  /\ clock = 0
  /\ runPc = "launch"
  /\ runI = 0
  /\ taskPc = [t \in Tasks |-> "idle"]
  /\ outcome = [t \in Tasks |-> "none"]
  /\ disk = [t \in Tasks |-> [exists |-> FALSE, size |-> 0, open |-> FALSE]]
  /\ resp = [t \in Tasks |-> [status |-> "none", length |-> 0]]
  /\ bars = [i \in Tasks |-> [order |-> i + 1, total |-> 0, current |-> 0]]
  /\ barValue = [i \in Tasks |-> 0]
  /\ labelText = [i \in Tasks |-> [unit |-> "", centi |-> 0]]
  /\ timing = [t \in Tasks |-> [start |-> 0, lastTime |-> 0, lastBytes |-> 0]]
  /\ samples = [t \in Tasks |-> <<>>]
  /\ untarLog = <<>>
  /\ destDir = <<>>

Init ==
  /\ PipeInit
  /\ uPc = "none"
  /\ uIn = [src |-> <<>>, openOk |-> FALSE, archive |-> [gzip |-> FALSE, entries |-> <<>>, tail |-> "EOF"]]
  /\ uOut = [status |-> "none", created |-> <<>>]

\* The whole pipeline, within one tick of the clock.
Next ==
  \/ Launch
  \/ \E t \in Tasks : Create(t)
  \/ \E t \in Tasks : Get(t, PipeServer)
  \/ \E t \in Tasks : Read(t, PipeServer)
  \/ \E t \in Tasks : Send(t)
  \/ \E t \in Tasks : Return(t)
  \/ Untar

Spec == Init /\ [][Next]_vars

\* One download followed through time: the behaviours in which the
\* scheduler has let no sibling goroutine past its first statement.
Alone(t) == \A u \in Tasks \ {t} : taskPc[u] \in {"idle", "create"}

FetchNext ==
  \/ Launch
  \/ \E t \in Tasks : Alone(t) /\ Create(t)
  \/ \E t \in Tasks : Alone(t) /\ Get(t, FetchServer)
  \/ \E t \in Tasks : Alone(t) /\ Read(t, FetchServer)
  \/ \E t \in Tasks : Alone(t) /\ Send(t)
  \/ \E t \in Tasks : Alone(t) /\ Return(t)
  \/ Tick(MaxClock)

FetchSpec == Init /\ [][FetchNext]_vars

\* untarGz called on its own, on any source path and any file content.
SrcNames ==
  { <<"x">>,
    <<"a",".","t","x","t">>,
    <<"t","a","r",".","g","z">>,
    <<".","t","a","r",".","g","z">>,
    <<".","/","i","n","f","o",".","t","x","t">>,
    <<".","/","p",".","t","a","r",".","g","z">> }

CallInit ==
  /\ PipeInit
  /\ uPc = "call"
  /\ uIn \in [src : SrcNames, openOk : BOOLEAN, archive : Archives(MaxEntries)]
  /\ uOut = [status |-> "none", created |-> <<>>]

UntarCall ==
  /\ uPc = "call"
  /\ uOut' = untarGz(uIn.src, uIn.openOk, uIn.archive)
  /\ uPc' = "returned"
  /\ UNCHANGED << uIn, pipeVars >>

CallNext == UntarCall

CallSpec == CallInit /\ [][CallNext]_vars

\* ------------------------------------------------------------------ claims

\* s ends with suf
HasSuffix(s, suf) ==
  /\ Len(s) >= Len(suf)
  /\ SubSeq(s, Len(s) - Len(suf) + 1, Len(s)) = suf

Ended(t) == taskPc[t] = "returned"

\* C1: whatever the outcome of each downloadFile task, the task signals
\* completion: once every task has ended, run has received all the signals
\* it waits for and is no longer in the wait loop.
C1_BarrierReleased ==
  (\A t \in Tasks : Ended(t)) => runPc # "wait"

\* C2 as stated: once untarGz has been called, every downloadFile task has
\* finished -- it has returned and no longer holds its destination file
\* open -- and the calls made so far are on files[0], files[1], ... in order.
C2_ExtractionAfterTasksFinished ==
  Len(untarLog) > 0 =>
    /\ \A t \in Tasks : Ended(t) /\ ~disk[t].open
    /\ \A k \in 1 .. Len(untarLog) : untarLog[k].file = k - 1

\* C2 as amended: once untarGz has been called, every downloadFile task has
\* read its body to the end and sent its completion signal, so that no read
\* or write step of a download can follow (its deferred Close may still be
\* pending), and the calls made so far are on files[0], files[1], ... in
\* order.
C2_ExtractionAfterDownloads ==
  Len(untarLog) > 0 =>
    /\ \A t \in Tasks : taskPc[t] \in {"defer", "returned"} /\ outcome[t] = "completed"
    /\ \A k \in 1 .. Len(untarLog) : untarLog[k].file = k - 1

\* C2 witness: every file has been handed to untarGz while a download task
\* still has its deferred Close pending.
C2_Witness ==
  /\ Len(untarLog) = Len(files)
  /\ \E t \in Tasks : taskPc[t] = "defer" /\ disk[t].open

\* What a step of task t must leave alone: the record, the widgets, the
\* destination file, the position and the outcome of every other task.
OthersUnchanged(t) ==
  \A u \in Tasks \ {t} :
    /\ bars'[u] = bars[u]
    /\ barValue'[u] = barValue[u]
    /\ labelText'[u] = labelText[u]
    /\ disk'[u] = disk[u]
    /\ taskPc'[u] = taskPc[u]
    /\ outcome'[u] = outcome[u]

\* C3: a step of task t leaves the record, the widgets, the destination
\* file, the position and the outcome of every other task unchanged (every
\* step is either no step of t or leaves the others alone), and a task that
\* is ready to signal always finds run still receiving, whatever became of
\* its siblings.
C3_TaskFrame ==
  [][ /\ \A t \in Tasks : OthersUnchanged(t) \/ ~TaskStep(t, PipeServer)
      /\ \A t \in Tasks :
           taskPc'[t] = "send" => (runPc' \in {"launch", "wait"})
    ]_vars

\* C3 witness: one task has failed and another has completed its download
\* with bytes in its own record and file.
C3_Witness ==
  \E t, u \in Tasks :
    /\ outcome[t] \in {"create_failed", "get_failed", "read_failed"}
    /\ outcome[u] = "completed"
    /\ bars[u].current > 0
    /\ disk[u].size > 0
    /\ bars[t].current = 0

\* C4: a task whose GET was answered with a non-success HTTP status writes
\* nothing of the body to its destination file and does not end as a
\* completed download.
C4_HttpErrorIsFatal ==
  \A t \in Tasks :
    resp[t].status = "http_error" =>
      /\ disk[t].size = 0
      /\ outcome[t] # "completed"

\* C5: when a task has left its read loop, ProgressBar.current equals the
\* number of bytes written to its destination file.
C5_CurrentEqualsWritten ==
  \A t \in Tasks :
    taskPc[t] \in {"send", "defer", "returned"} =>
      bars[BarIndex(Order(t))].current = disk[t].size

\* C6: current never exceeds a known total, and while the total is unknown
\* (negative) no percentage reaches the progress bar, which keeps the value
\* NewProgressBar gave it.
C6_PercentOnlyOfKnownTotal ==
  \A t \in Tasks :
    LET b == BarIndex(Order(t)) IN
      /\ bars[b].total >= 0 => bars[b].current <= bars[b].total
      /\ bars[b].total < 0 => barValue[b] = 0

\* C7: called on a source that opens and whose name does not end in
\* ".tar.gz", untarGz returns nil and creates nothing.
C7_NonArchiveIsNoOp ==
  (uPc = "returned" /\ uIn.openOk /\ ~HasSuffix(uIn.src, TarGzLiteral)) =>
    /\ uOut.status = "nil"
    /\ uOut.created = <<>>

\* C8: the first speed sample of a task comes at least one second after the
\* task's start, and every later one at least one second after the one
\* before it.
C8_SamplesOneSecondApart ==
  \A t \in Tasks :
    \A k \in 1 .. Len(samples[t]) :
      samples[t][k] - (IF k = 1 THEN timing[t].start ELSE samples[t][k - 1])
        >= TicksPerSecond

\* C8 witness: a task has emitted two speed samples.
C8_Witness == \E t \in Tasks : Len(samples[t]) >= 2

\* C9: run never crashes in the extraction loop and calls untarGz on the
\* files in list order whatever the earlier calls returned: while the loop
\* is at index i the calls made are exactly those on files[0..i-1], and at
\* the end every file has been called on.
C9_ExtractionContinues ==
  /\ runPc # "crashed"
  /\ \A k \in 1 .. Len(untarLog) : untarLog[k].file = k - 1
  /\ runPc = "untar" => Len(untarLog) = runI
  /\ runPc = "end" => Len(untarLog) = Len(files)

\* C9 witness: the loop has ended after the call on the first file failed.
C9_Witness ==
  /\ runPc = "end"
  /\ untarLog[1].status # "nil"
  /\ Len(untarLog) = Len(files)

\* What the entry at position k of an archive asks for.
Fatal(e) == e.io # "ok"

\* Position of the first fatal error of an archive: an entry that cannot be
\* materialised, or the position after the last entry when the archive is
\* cut short; 0 when there is none.
FirstFatal(archive) ==
  LET bad == { k \in 1 .. Len(archive.entries) : Fatal(archive.entries[k]) }
  IN  IF bad # {}
      THEN CHOOSE k \in bad : \A j \in bad : k <= j
      ELSE IF archive.tail = "err" THEN Len(archive.entries) + 1 ELSE 0

\* C10: on an archive (a source that opens, is named *.tar.gz and is valid
\* gzip) untarGz returns an error exactly when the archive has a fatal
\* error, materialises every directory and regular file that precedes the
\* first fatal error, nothing that follows it, and never an entry of another
\* kind.
C10_EntriesInOrderUntilFatal ==
  (uPc = "returned" /\ uIn.openOk /\ HasSuffix(uIn.src, TarGzLiteral) /\ uIn.archive.gzip) =>
    LET a  == uIn.archive
        ff == FirstFatal(a)
        at == { uOut.created[j].at : j \in 1 .. Len(uOut.created) }
    IN  /\ (uOut.status = "nil") <=> (ff = 0)
        /\ \A k \in 1 .. Len(a.entries) :
             /\ (a.entries[k].kind # "other" /\ (ff = 0 \/ k < ff)) => k \in at
             /\ (ff # 0 /\ k > ff) => k \notin at
             /\ a.entries[k].kind = "other" => k \notin at
        /\ \A i, j \in 1 .. Len(uOut.created) :
             i < j => uOut.created[i].at < uOut.created[j].at

====
